---------------------------- MODULE Spec2Model ----------------------------
(***************************************************************************)
(* Slot materialisation and capacity-limited booking of                    *)
(* care/emr/api/viewsets/scheduling/availability.py.                       *)
(*                                                                         *)
(* Times of day are minutes since midnight; a datetime produced by         *)
(* dateutil's parse() of a time string is minutes since today's midnight   *)
(* (it may run past 1440 once timedeltas are added); dates are day         *)
(* ordinals whose weekday is the ordinal modulo 7.                         *)
(***************************************************************************)
EXTENDS Integers, Sequences, FiniteSets, TLC

VARIABLES
    availabilities,  \* Availability table (rows in table order), never written here
    slots,           \* TokenSlot table, committed rows in primary-key order
    bookings,        \* TokenBooking table, committed rows in primary-key order
    lock,            \* Lock("booking:resource:<id>") holder per resource, 0 when free
    bpc,             \* position of each create_appointment request
    breq,            \* its inputs: the slot id of the URL and the patient external id
    bobj,            \* its in-memory token_slot object (loaded by get_object)
    btx,             \* writes of its open transaction.atomic() block, not yet committed
    qpc,             \* position of each get_slots_for_day request
    qreq,            \* its request_data: resource external id and day
    qslots,          \* its local dict `slots` (the candidates still to create)
    qcreated,        \* its local queryset result `created_slots`
    qresult,         \* the "results" list of its Response
    last,            \* the last completed call of a sequential client and its response
    expIn,           \* argument of a direct convert_availability_to_slots call
    expOut           \* its return value

vars == <<availabilities, slots, bookings, lock, bpc, breq, bobj, btx,
          qpc, qreq, qslots, qcreated, qresult, last, expIn, expOut>>

None == "none"

----------------------------------------------------------------------------
(* Program constants *)

\* `if i == 30` failsafe of the expansion loop
FailsafeLimit == 30

\* datetime.time() drops the date: minutes wrap at midnight
MinutesPerDay == 1440

\* date.weekday() is periodic in the day ordinal
DaysPerWeek == 7

(* Bounds of the model *)

\* concurrent create_appointment requests
NumBookers == 3

\* concurrent get_slots_for_day requests
NumQueriers == 2

\* longest argument list of a direct convert_availability_to_slots call
MaxAvail == 2

Bookers == 1..NumBookers
Queriers == 1..NumQueriers

----------------------------------------------------------------------------
(* datetime helpers *)

\* datetime.time(): the time of day of a datetime
TimeOf(dt) == dt % MinutesPerDay

\* date.weekday()
Weekday(day) == day % DaysPerWeek

\* datetime.datetime.combine(day, time)
Combine(day, t) == [date |-> day, time |-> t]

----------------------------------------------------------------------------
(* The insertion-ordered dict `slots` of convert_availability_to_slots:    *)
(* a sequence of entries with pairwise distinct keys.                      *)

DictHas(d, k) == \E i \in DOMAIN d : d[i].key = k

DictGet(d, k) == d[CHOOSE i \in DOMAIN d : d[i].key = k]

\* d[k] = v : an existing key keeps its position, a new key is appended
DictSetKeepFirst(d, k, v) ==
    IF DictHas(d, k) THEN d ELSE Append(d, v)
DictSet(d, k, v) ==
    IF DictHas(d, k)
    THEN [i \in DOMAIN d |-> IF d[i].key = k THEN v ELSE d[i]]
    ELSE Append(d, v)

\* d.pop(k)
DictPop(d, k) == SelectSeq(d, LAMBDA e : e.key # k)

\* f"{start.time()}-{end.time()}"
SlotKey(startT, endT) == <<startT, endT>>

\* the failsafe test of the loop, on the already incremented counter
FailsafeHitOff(i) == i > FailsafeLimit
FailsafeHit(i) == i = FailsafeLimit

\* the loop condition
LoopCondInclusive(current_time, end_time) == current_time <= end_time
LoopCond(current_time, end_time) == current_time < end_time

\* the while loop over one window; i counts the iterations begun so far
\* (the test on the new dict makes TLC build it before the next iteration)
RECURSIVE ExpandWindow(_, _, _, _, _, _)
ExpandWindow(d, current_time, end_time, size, aid, i) ==
    IF ~LoopCond(current_time, end_time) THEN d
    ELSE IF FailsafeHit(i + 1) THEN d
    ELSE LET s == TimeOf(current_time)
             e == TimeOf(current_time + size)
             entry == [key |-> SlotKey(s, e), start_time |-> s,
                       end_time |-> e, availability_id |-> aid]
             d2 == DictSet(d, entry.key, entry)
         IN IF Len(d2) > 0
            THEN ExpandWindow(d2, current_time + size, end_time, size, aid, i + 1)
            ELSE d2

RECURSIVE ConvertFrom(_, _, _)
ConvertFrom(d, avs, n) ==
    IF n > Len(avs) THEN d
    ELSE ConvertFrom(
            ExpandWindow(d, avs[n].availability.start_time,
                         avs[n].availability.end_time,
                         avs[n].slot_size_in_minutes,
                         avs[n].availability_id, 0),
            avs, n + 1)

convert_availability_to_slots(avs) == ConvertFrom(<<>>, avs, 1)

----------------------------------------------------------------------------
(* Direct calls of the expander on bounded argument lists *)

\* recurrence windows tried: the 09:00-10:00 scenario, short, empty and
\* reversed windows, windows far longer than the failsafe, one close to midnight
Windows ==
    { [day_of_week |-> 2, start_time |-> w[1], end_time |-> w[2]] :
        w \in { <<540, 600>>, <<540, 569>>, <<540, 540>>, <<600, 540>>,
                <<0, 1439>>, <<540, 1140>>, <<1400, 1439>> } }

SlotSizes == {1, 20, 30, 45}

ExpandArg(aid) ==
    { [availability |-> w, slot_size_in_minutes |-> sz, availability_id |-> aid] :
        w \in Windows, sz \in SlotSizes }

RECURSIVE ExpandArgs(_)
ExpandArgs(n) ==
    IF n = 0 THEN { <<>> }
    ELSE { Append(a, x) : a \in ExpandArgs(n - 1), x \in ExpandArg(n) }

----------------------------------------------------------------------------
(* Rows the handlers only read *)

\* User rows; "u9" is the external id of no user
Users == { [id |-> 1, external_id |-> "u1"], [id |-> 2, external_id |-> "u2"],
           [id |-> 3, external_id |-> "u3"] }
UserExternalIds == {"u1", "u2", "u3", "u9"}

\* SchedulableResource rows of the facility of the URL; user 3 has none
SchedulableResources ==
    { [id |-> 1, facility |-> "f1", resource_id |-> 1, resource_type |-> "user"],
      [id |-> 2, facility |-> "f1", resource_id |-> 2, resource_type |-> "user"] }
ResourceIds == { r.id : r \in SchedulableResources }

\* PatientRegistration external ids; "p9" is the external id of no patient
Patients == {"p1"}
PatientExternalIds == {"p1", "p9"}

\* the days asked for: a Wednesday (weekday 2) and the Thursday after it
Days == {2, 3}

\* Availability rows, in table order.  Rows 1 and 2 belong to resource 1
\* and both cover 09:30-10:00 on Wednesdays; row 3 is not an appointment
\* availability; row 4 belongs to a schedule that ended; row 5 belongs to
\* resource 2.
AvailabilityTable(tokens) ==
    << [id |-> 1, resource |-> 1, valid_from |-> 0, valid_to |-> 13,
        slot_type |-> "appointment", slot_size_in_minutes |-> 30,
        tokens_per_slot |-> tokens,
        availability |-> << [day_of_week |-> 2, start_time |-> 540, end_time |-> 600],
                            [day_of_week |-> 4, start_time |-> 540, end_time |-> 570] >>],
       [id |-> 2, resource |-> 1, valid_from |-> 0, valid_to |-> 13,
        slot_type |-> "appointment", slot_size_in_minutes |-> 30,
        tokens_per_slot |-> 1,
        availability |-> << [day_of_week |-> 2, start_time |-> 570, end_time |-> 600] >>],
       [id |-> 3, resource |-> 1, valid_from |-> 0, valid_to |-> 13,
        slot_type |-> "open", slot_size_in_minutes |-> 30,
        tokens_per_slot |-> 1,
        availability |-> << [day_of_week |-> 2, start_time |-> 660, end_time |-> 720] >>],
       [id |-> 4, resource |-> 1, valid_from |-> 0, valid_to |-> 1,
        slot_type |-> "appointment", slot_size_in_minutes |-> 30,
        tokens_per_slot |-> 1,
        availability |-> << [day_of_week |-> 2, start_time |-> 780, end_time |-> 840] >>],
       [id |-> 5, resource |-> 2, valid_from |-> 0, valid_to |-> 13,
        slot_type |-> "appointment", slot_size_in_minutes |-> 60,
        tokens_per_slot |-> 1,
        availability |-> << [day_of_week |-> 2, start_time |-> 540, end_time |-> 600] >>] >>

\* tokens_per_slot of availability 1 in the tables tried
TokenChoices == {1, 2}

\* a TokenSlot row
SlotRow(id, res, day, s, e, aid, alloc) ==
    [id |-> id, resource |-> res, start_datetime |-> Combine(day, s),
     end_datetime |-> Combine(day, e), availability_id |-> aid, allocated |-> alloc]

\* TokenSlot tables found at start by the racing requests: none, or the
\* first slot of the Wednesday already materialised
InitialSlotTables ==
    { <<>>,
      << SlotRow(1, 1, 2, 540, 570, 1, 0) >> }

\* TokenSlot tables left by an earlier availability configuration: a slot
\* of 09:30-10:00 made for availability 1 before availability 2 existed;
\* a slot that is still a candidate next to one of a window that has since
\* been shortened
EarlierSlotTables ==
    { <<>>,
      << SlotRow(1, 1, 2, 570, 600, 1, 0) >>,
      << SlotRow(1, 1, 2, 540, 570, 1, 0), SlotRow(2, 1, 2, 600, 630, 1, 0) >> }

\* a Wednesday slot of each resource already materialised
MaterialisedSlotTables ==
    { << SlotRow(1, 1, 2, 540, 570, 1, 0), SlotRow(2, 2, 2, 540, 600, 5, 0) >> }

\* the table after resource 1 and resource 2 were both queried for day 2
TwoResourceSlotTables ==
    { << SlotRow(1, 1, 2, 540, 570, 1, 0), SlotRow(2, 1, 2, 570, 600, 2, 0),
         SlotRow(3, 2, 2, 540, 600, 5, 0) >> }

\* the Availability row with this primary key
AvailabilityOf(aid) ==
    availabilities[CHOOSE i \in DOMAIN availabilities : availabilities[i].id = aid]

----------------------------------------------------------------------------
(* get_slots_for_day_handler, piece by piece *)

\* User.objects.filter(external_id=...).first(), then
\* SchedulableResource.objects.filter(...).first(); an error string when
\* either is missing
ResolveResourceAnyOwner(external_id, resource_type) ==
    IF ~\E u \in Users : u.external_id = external_id
    THEN [error |-> "Resource does not exist"]
    ELSE LET found == { r \in SchedulableResources :
                          /\ r.facility = "f1"
                          /\ r.resource_type = resource_type }
         IN IF found = {}
            THEN [error |-> "Resource is not schedulable"]
            ELSE [error |-> None, obj |-> CHOOSE r \in found : TRUE]
ResolveResource(external_id, resource_type) ==
    IF ~\E u \in Users : u.external_id = external_id
    THEN [error |-> "Resource does not exist"]
    ELSE LET user == CHOOSE u \in Users : u.external_id = external_id
             found == { r \in SchedulableResources :
                          /\ r.facility = "f1"
                          /\ r.resource_id = user.id
                          /\ r.resource_type = resource_type }
         IN IF found = {}
            THEN [error |-> "Resource is not schedulable"]
            ELSE [error |-> None, obj |-> CHOOSE r \in found : TRUE]

\* the Availability queryset: appointment availabilities of schedules of
\* the resource that are valid on the day
AvailabilitiesFor(res, day) ==
    SelectSeq(availabilities,
              LAMBDA a : /\ a.slot_type = "appointment"
                         /\ a.valid_from <= day
                         /\ day <= a.valid_to
                         /\ a.resource = res.id)

\* the day-of-week test of one recurrence entry
DayMatchesAny(day_availability, day) == TRUE
DayMatches(day_availability, day) == day_availability.day_of_week = Weekday(day)

\* the inner loop: the entries of one Availability that fall on the day
DowOfAvailability(a, day) ==
    LET ents == SelectSeq(a.availability, LAMBDA e : DayMatches(e, day))
    IN [i \in 1..Len(ents) |->
          [availability |-> ents[i],
           slot_size_in_minutes |-> a.slot_size_in_minutes,
           availability_id |-> a.id]]

\* the outer loop: calculated_dow_availabilities
RECURSIVE CalculatedDow(_, _, _)
CalculatedDow(avs, day, n) ==
    IF n > Len(avs) THEN <<>>
    ELSE DowOfAvailability(avs[n], day) \o CalculatedDow(avs, day, n + 1)

\* the candidate dict of a (resource, day)
Candidates(res, day) ==
    convert_availability_to_slots(CalculatedDow(AvailabilitiesFor(res, day), day, 1))

\* TokenSlot.objects.filter(start_datetime__date=day, end_datetime__date=day,
\* resource=res), in primary-key order
SlotsForDay(tbl, res, day) ==
    SelectSeq(tbl, LAMBDA s : /\ s.start_datetime.date = day
                              /\ s.end_datetime.date = day
                              /\ s.resource = res.id)

\* the test that pops a candidate for an existing slot
SatisfiedByKeyOnly(d, slot) ==
    DictHas(d, SlotKey(slot.start_datetime.time, slot.end_datetime.time))
NeverSatisfied(d, slot) == FALSE
Satisfied(d, slot) ==
    LET slot_key == SlotKey(slot.start_datetime.time, slot.end_datetime.time)
    IN /\ DictHas(d, slot_key)
       /\ DictGet(d, slot_key).availability_id = slot.availability_id

\* the loop over created_slots
RECURSIVE Reconcile(_, _, _)
Reconcile(d, created, n) ==
    IF n > Len(created) THEN d
    ELSE LET slot == created[n]
             slot_key == SlotKey(slot.start_datetime.time, slot.end_datetime.time)
         IN Reconcile(IF Satisfied(d, slot) THEN DictPop(d, slot_key) ELSE d,
                      created, n + 1)

\* TokenSlot.objects.create(...) of one candidate; allocated starts at 0
CreateSlotIfAbsent(tbl, res, day, entry) ==
    IF \E i \in DOMAIN tbl :
          /\ tbl[i].resource = res.id
          /\ tbl[i].start_datetime = Combine(day, entry.start_time)
          /\ tbl[i].end_datetime = Combine(day, entry.end_time)
          /\ tbl[i].availability_id = entry.availability_id
    THEN tbl
    ELSE Append(tbl, SlotRow(Len(tbl) + 1, res.id, day, entry.start_time,
                             entry.end_time, entry.availability_id, 0))
CreateSlot(tbl, res, day, entry) ==
    Append(tbl, SlotRow(Len(tbl) + 1, res.id, day, entry.start_time,
                        entry.end_time, entry.availability_id, 0))

\* the creation loop, in dict order
RECURSIVE CreateAll(_, _, _, _, _)
CreateAll(tbl, res, day, d, n) ==
    IF n > Len(d) THEN tbl
    ELSE CreateAll(CreateSlot(tbl, res, day, d[n]), res, day, d, n + 1)

\* the whole handler run without interruption on table tbl: the table
\* it leaves, its "results" and the number of rows it created
GetSlotsForDayRun(tbl, external_id, day) ==
    LET r == ResolveResource(external_id, "user")
    IN IF r.error # None
       THEN [error |-> r.error, slots |-> tbl, results |-> <<>>, created |-> 0]
       ELSE LET d == Reconcile(Candidates(r.obj, day),
                               SlotsForDay(tbl, r.obj, day), 1)
                tbl2 == CreateAll(tbl, r.obj, day, d, 1)
            IN [error |-> None, slots |-> tbl2,
                results |-> SlotsForDay(tbl2, r.obj, day), created |-> Len(d)]

----------------------------------------------------------------------------
(* lock_create_appointment, piece by piece *)

\* token_slot.availability.tokens_per_slot
TokensPerSlot(token_slot) == AvailabilityOf(token_slot.availability_id).tokens_per_slot

\* the capacity test, on the in-memory object
IsFullStrict(token_slot) == token_slot.allocated > TokensPerSlot(token_slot)
IsFull(token_slot) == token_slot.allocated >= TokensPerSlot(token_slot)

\* Lock.__enter__ / Lock.__exit__ on "booking:resource:<id>"
LockFree(res) == lock[res] = 0
LockAcquired(res, p) == [lock EXCEPT ![res] = p]
LockReleased(res) == [lock EXCEPT ![res] = 0]

\* token_slot.save(): an UPDATE of the whole row by primary key
SavedRowAll(tbl, token_slot) ==
    [i \in DOMAIN tbl |-> [tbl[i] EXCEPT !.allocated = token_slot.allocated]]
SavedRow(tbl, token_slot) == [tbl EXCEPT ![token_slot.id] = token_slot]

\* TokenBooking.objects.create(...)
BookingRow(bks, token_slot, patient) ==
    Append(bks, [id |-> Len(bks) + 1, token_slot |-> token_slot.id,
                 patient |-> patient, status |-> "booked"])

----------------------------------------------------------------------------
(* Initial states *)

NoRequest == [slot |-> 0, patient |-> None]
NoQuery == [resource |-> None, day |-> 0]
NoCall == [op |-> None]
NoObject == [id |-> 0]
NotReturned == [returned |-> FALSE]

Fixture(tables, tokens) ==
    /\ availabilities \in { AvailabilityTable(t) : t \in tokens }
    /\ slots \in tables
    /\ bookings = <<>>
    /\ lock = [r \in ResourceIds |-> 0]

Quiet ==
    /\ bpc = [p \in Bookers |-> "idle"]
    /\ breq = [p \in Bookers |-> NoRequest]
    /\ bobj = [p \in Bookers |-> NoObject]
    /\ btx = [p \in Bookers |-> NoObject]
    /\ qpc = [q \in Queriers |-> "idle"]
    /\ qreq = [q \in Queriers |-> NoQuery]
    /\ qslots = [q \in Queriers |-> <<>>]
    /\ qcreated = [q \in Queriers |-> <<>>]
    /\ qresult = [q \in Queriers |-> <<>>]
    /\ last = NoCall

Init ==
    /\ Fixture(InitialSlotTables, TokenChoices)
    /\ Quiet
    /\ expIn = <<>>
    /\ expOut = NotReturned

InitEarlier ==
    /\ Fixture(EarlierSlotTables, TokenChoices)
    /\ Quiet
    /\ expIn = <<>>
    /\ expOut = NotReturned

InitMaterialised ==
    /\ Fixture(MaterialisedSlotTables, TokenChoices)
    /\ Quiet
    /\ expIn = <<>>
    /\ expOut = NotReturned

InitTwoResources ==
    /\ Fixture(TwoResourceSlotTables, {1})
    /\ Quiet
    /\ expIn = <<>>
    /\ expOut = NotReturned

InitExpand ==
    /\ Fixture({<<>>}, {1})
    /\ Quiet
    /\ expIn \in UNION { ExpandArgs(n) : n \in 0..MaxAvail }
    /\ expOut = NotReturned

bvars == <<bpc, breq, bobj, btx>>
qvars == <<qpc, qreq, qslots, qcreated, qresult>>
xvars == <<last, expIn, expOut>>

----------------------------------------------------------------------------
(* A get_slots_for_day request q, step by step *)

\* lines 96-143: resolve the resource, expand the availabilities of the
\* day, read the existing slots and drop the satisfied candidates.
\* Requests are numbered in the order they arrive.
GetSlotsForDay(q, external_id, day) ==
    /\ qpc[q] = "idle"
    /\ \A q2 \in Queriers : q2 < q => qpc[q2] # "idle"
    /\ qreq' = [qreq EXCEPT ![q] = [resource |-> external_id, day |-> day]]
    /\ LET r == ResolveResource(external_id, "user")
       IN IF r.error # None
          THEN /\ qpc' = [qpc EXCEPT ![q] = "error"]
               /\ UNCHANGED <<qslots, qcreated>>
          ELSE LET created_slots == SlotsForDay(slots, r.obj, day)
               IN /\ qcreated' = [qcreated EXCEPT ![q] = created_slots]
                  /\ qslots' = [qslots EXCEPT ![q] =
                                  Reconcile(Candidates(r.obj, day), created_slots, 1)]
                  /\ qpc' = [qpc EXCEPT ![q] = "creating"]
    /\ UNCHANGED <<availabilities, slots, bookings, lock, bvars, qresult, xvars>>

\* lines 146-157: one pass of the creation loop; qslots holds the entries
\* the loop has still to visit
CreateNextSlot(q) ==
    /\ qpc[q] = "creating"
    /\ qslots[q] # <<>>
    /\ LET r == ResolveResource(qreq[q].resource, "user")
       IN slots' = CreateSlot(slots, r.obj, qreq[q].day, Head(qslots[q]))
    /\ qslots' = [qslots EXCEPT ![q] = Tail(qslots[q])]
    /\ UNCHANGED <<availabilities, bookings, lock, bvars, qpc, qreq, qcreated,
                   qresult, xvars>>

\* lines 159-170: the final read and the Response
ReturnSlots(q) ==
    /\ qpc[q] = "creating"
    /\ qslots[q] = <<>>
    /\ LET r == ResolveResource(qreq[q].resource, "user")
       IN qresult' = [qresult EXCEPT ![q] = SlotsForDay(slots, r.obj, qreq[q].day)]
    /\ qpc' = [qpc EXCEPT ![q] = "done"]
    /\ UNCHANGED <<availabilities, slots, bookings, lock, bvars, qreq, qslots,
                   qcreated, xvars>>

----------------------------------------------------------------------------
(* A create_appointment request p, step by step *)

\* lines 176-182 and 191-194: get_object() loads the slot, then the
\* patient is looked up.  Requests are interchangeable, so they are
\* numbered in the order they arrive.
CreateAppointmentNoPatientCheck(p, sid, patient) ==
    /\ bpc[p] = "idle"
    /\ \A p2 \in Bookers : p2 < p => bpc[p2] # "idle"
    /\ sid \in DOMAIN slots
    /\ breq' = [breq EXCEPT ![p] = [slot |-> sid, patient |-> patient]]
    /\ bobj' = [bobj EXCEPT ![p] = slots[sid]]
    /\ bpc' = [bpc EXCEPT ![p] = "waiting"]
    /\ UNCHANGED <<availabilities, slots, bookings, lock, btx, qvars, xvars>>
CreateAppointment(p, sid, patient) ==
    /\ bpc[p] = "idle"
    /\ \A p2 \in Bookers : p2 < p => bpc[p2] # "idle"
    /\ sid \in DOMAIN slots
    /\ breq' = [breq EXCEPT ![p] = [slot |-> sid, patient |-> patient]]
    /\ IF patient \in Patients
       THEN /\ bobj' = [bobj EXCEPT ![p] = slots[sid]]
            /\ bpc' = [bpc EXCEPT ![p] = "waiting"]
       ELSE /\ bobj' = [bobj EXCEPT ![p] = NoObject]
            /\ bpc' = [bpc EXCEPT ![p] = "notfound"]
    /\ UNCHANGED <<availabilities, slots, bookings, lock, btx, qvars, xvars>>

\* line 70: the with statement is entered: the lock is taken and the
\* transaction begun
LockEnterUnguarded(p) ==
    /\ bpc[p] = "waiting"
    /\ lock' = LockAcquired(bobj[p].resource, p)
    /\ bpc' = [bpc EXCEPT ![p] = "locked"]
    /\ UNCHANGED <<availabilities, slots, bookings, breq, bobj, btx, qvars, xvars>>
LockEnter(p) ==
    /\ bpc[p] = "waiting"
    /\ LockFree(bobj[p].resource)
    /\ lock' = LockAcquired(bobj[p].resource, p)
    /\ bpc' = [bpc EXCEPT ![p] = "locked"]
    /\ UNCHANGED <<availabilities, slots, bookings, breq, bobj, btx, qvars, xvars>>

\* lines 71-72: the slot is full: ValidationError leaves the with statement
RejectFullKeepsLock(p) ==
    /\ bpc[p] = "locked"
    /\ IsFull(bobj[p])
    /\ bpc' = [bpc EXCEPT ![p] = "full"]
    /\ bobj' = [bobj EXCEPT ![p] = NoObject]
    /\ UNCHANGED <<availabilities, slots, bookings, lock, breq, btx, qvars, xvars>>
RejectFull(p) ==
    /\ bpc[p] = "locked"
    /\ IsFull(bobj[p])
    /\ lock' = LockReleased(bobj[p].resource)
    /\ bpc' = [bpc EXCEPT ![p] = "full"]
    /\ bobj' = [bobj EXCEPT ![p] = NoObject]
    /\ UNCHANGED <<availabilities, slots, bookings, breq, btx, qvars, xvars>>

\* lines 73-74: the in-memory counter is incremented and the row saved
\* inside the transaction
SaveAllocated(p) ==
    /\ bpc[p] = "locked"
    /\ ~IsFull(bobj[p])
    /\ LET token_slot == [bobj[p] EXCEPT !.allocated = @ + 1]
       IN /\ bobj' = [bobj EXCEPT ![p] = token_slot]
          /\ btx' = [btx EXCEPT ![p] = token_slot]
    /\ bpc' = [bpc EXCEPT ![p] = "saved"]
    /\ UNCHANGED <<availabilities, slots, bookings, lock, breq, qvars, xvars>>

\* lines 75-81: the booking is created, the transaction commits and the
\* lock is released
BookingCreate(p) ==
    /\ bpc[p] = "saved"
    /\ slots' = SavedRow(slots, btx[p])
    /\ bookings' = BookingRow(bookings, bobj[p], breq[p].patient)
    /\ btx' = [btx EXCEPT ![p] = NoObject]
    /\ lock' = LockReleased(bobj[p].resource)
    /\ bpc' = [bpc EXCEPT ![p] = "done"]
    /\ bobj' = [bobj EXCEPT ![p] = NoObject]
    /\ UNCHANGED <<availabilities, breq, qvars, xvars>>

\* lines 70 and 75: the create raises: the transaction rolls back and the
\* lock is released
BookingCreateFailsCommits(p) ==
    /\ bpc[p] = "saved"
    /\ slots' = SavedRow(slots, btx[p])
    /\ btx' = [btx EXCEPT ![p] = NoObject]
    /\ lock' = LockReleased(bobj[p].resource)
    /\ bpc' = [bpc EXCEPT ![p] = "failed"]
    /\ bobj' = [bobj EXCEPT ![p] = NoObject]
    /\ UNCHANGED <<availabilities, bookings, breq, qvars, xvars>>
BookingCreateFails(p) ==
    /\ bpc[p] = "saved"
    /\ btx' = [btx EXCEPT ![p] = NoObject]
    /\ lock' = LockReleased(bobj[p].resource)
    /\ bpc' = [bpc EXCEPT ![p] = "failed"]
    /\ bobj' = [bobj EXCEPT ![p] = NoObject]
    /\ UNCHANGED <<availabilities, slots, bookings, breq, qvars, xvars>>

\* the booking requests
NextBook ==
    \/ \E p \in Bookers, sid \in DOMAIN slots, pat \in PatientExternalIds :
          CreateAppointment(p, sid, pat)
    \/ \E p \in Bookers : LockEnter(p)
    \/ \E p \in Bookers : RejectFull(p)
    \/ \E p \in Bookers : SaveAllocated(p)
    \/ \E p \in Bookers : BookingCreate(p)
    \/ \E p \in Bookers : BookingCreateFails(p)

\* the slot queries
NextQuery ==
    \/ \E q \in Queriers, u \in UserExternalIds, d \in Days : GetSlotsForDay(q, u, d)
    \/ \E q \in Queriers : CreateNextSlot(q)
    \/ \E q \in Queriers : ReturnSlots(q)

\* booking requests racing with one slot query
Next ==
    \/ NextBook
    \/ \E u \in UserExternalIds, d \in Days : GetSlotsForDay(1, u, d)
    \/ CreateNextSlot(1)
    \/ ReturnSlots(1)

Spec == Init /\ [][Next]_vars

\* slot queries racing with each other, on tables of an earlier configuration
SpecQuery == InitEarlier /\ [][NextQuery]_vars

\* booking requests alone: a request inside the with statement keeps
\* running, and a request waiting for a lock that is free again and again
\* gets it
BookingFairness ==
    /\ \A p \in Bookers : SF_vars(LockEnter(p))
    /\ WF_vars(\E p \in Bookers : \/ RejectFull(p) \/ SaveAllocated(p)
                                   \/ BookingCreate(p) \/ BookingCreateFails(p))

LiveSpec == InitMaterialised /\ [][NextBook]_vars /\ BookingFairness

\* booking requests alone, on the slots of two resources
SpecBook == InitTwoResources /\ [][NextBook]_vars

----------------------------------------------------------------------------
(* One client calling the two handlers one after the other *)

\* get_slots_for_day_handler, run to its Response
SeqGetSlotsForDay(external_id, day) ==
    /\ LET run == GetSlotsForDayRun(slots, external_id, day)
       IN /\ slots' = run.slots
          /\ last' = [op |-> "get_slots_for_day", resource |-> external_id,
                      day |-> day, error |-> run.error, results |-> run.results,
                      created |-> run.created,
                      again |-> /\ last.op = "get_slots_for_day"
                                /\ last.resource = external_id
                                /\ last.day = day]
    /\ UNCHANGED <<availabilities, bookings, lock, bvars, qvars, expIn, expOut>>

\* create_appointment, run to its Response
SeqCreateAppointment(sid, patient) ==
    /\ sid \in DOMAIN slots
    /\ LET token_slot == slots[sid]
           outcome == IF patient \notin Patients THEN "notfound"
                      ELSE IF IsFull(token_slot) THEN "full" ELSE "booked"
           saved == [token_slot EXCEPT !.allocated = @ + 1]
       IN /\ last' = [op |-> "create_appointment", slot |-> sid, outcome |-> outcome]
          /\ IF outcome = "booked"
             THEN /\ slots' = SavedRow(slots, saved)
                  /\ bookings' = BookingRow(bookings, saved, patient)
             ELSE UNCHANGED <<slots, bookings>>
    /\ UNCHANGED <<availabilities, lock, bvars, qvars, expIn, expOut>>

NextSeq ==
    \/ \E u \in UserExternalIds, d \in Days : SeqGetSlotsForDay(u, d)
    \/ \E sid \in DOMAIN slots, pat \in PatientExternalIds : SeqCreateAppointment(sid, pat)

SpecSeq == InitEarlier /\ [][NextSeq]_vars

----------------------------------------------------------------------------
(* Direct calls of convert_availability_to_slots *)

Expand ==
    /\ ~expOut.returned
    /\ expOut' = [returned |-> TRUE, slots |-> convert_availability_to_slots(expIn)]
    /\ UNCHANGED <<availabilities, slots, bookings, lock, bvars, qvars, last, expIn>>

SpecExpand == InitExpand /\ [][Expand]_vars

----------------------------------------------------------------------------
(* Properties *)

\* the requests that went for slot sid and found their patient
BookersOf(sid) ==
    { p \in Bookers : breq[p].slot = sid /\ bpc[p] \notin {"idle", "notfound"} }

\* the committed bookings of slot sid
BookingsOfSlot(sid) == { i \in DOMAIN bookings : bookings[i].token_slot = sid }

\* C1: for a slot with tokens_per_slot = 1 that started at allocated = 0,
\* once all the concurrent requests for it have ended in success or in
\* "Slot is already full", exactly one of them has succeeded.
C1_ExactlyOneSuccess ==
    \A sid \in DOMAIN slots :
        ( /\ TokensPerSlot(slots[sid]) = 1
          /\ BookersOf(sid) # {}
          /\ \A p \in BookersOf(sid) : bpc[p] \in {"done", "full"} )
        => Cardinality({ p \in BookersOf(sid) : bpc[p] = "done" }) = 1

\* C2: every committed slot has 0 <= allocated <= tokens_per_slot of its
\* availability, whatever the interleaving of queries and bookings.
C2_AllocatedWithinCapacity ==
    \A sid \in DOMAIN slots :
        /\ 0 <= slots[sid].allocated
        /\ slots[sid].allocated <= TokensPerSlot(slots[sid])

\* a slot filled to its capacity of 2 while a slot query is under way or over
C2_Witness ==
    /\ qpc[1] # "idle"
    /\ \E sid \in DOMAIN slots :
          /\ TokensPerSlot(slots[sid]) = 2
          /\ slots[sid].allocated = 2

\* C3: the number of committed bookings of a slot equals its committed
\* allocated counter.
C3_BookingsEqualAllocated ==
    \A sid \in DOMAIN slots :
        Cardinality(BookingsOfSlot(sid)) = slots[sid].allocated

\* C4: no step makes the committed allocated counter of a slot smaller.
C4_AllocatedNeverDecreases ==
    [][\A sid \in DOMAIN slots : slots'[sid].allocated >= slots[sid].allocated]_vars

\* the slots of resource res in table tbl
SlotsOfResource(tbl, res) == { sid \in DOMAIN tbl : tbl[sid].resource = res }

\* the bookings in bks of slots of resource res
BookingsOfResource(bks, res) ==
    { i \in DOMAIN bks : slots[bks[i].token_slot].resource = res }

\* C5: while a request is inside the locked scope and as long as it does
\* not leave it by success, the committed slots of its resource and the
\* bookings on them stay as they were when it entered; and a request that
\* finds its slot full leaves the scope rejected.
C5_FailureLeavesStateUnchanged ==
    [][\A p \in Bookers :
          /\ (bpc[p] \in {"locked", "saved"} /\ bpc'[p] # "done")
             => /\ \A sid \in SlotsOfResource(slots, bobj[p].resource) :
                      slots'[sid] = slots[sid]
                /\ BookingsOfResource(bookings', bobj[p].resource)
                      = BookingsOfResource(bookings, bobj[p].resource)
          /\ (bpc[p] = "locked" /\ bpc'[p] # "locked" /\ IsFull(bobj[p]))
             => bpc'[p] = "full"]_vars

\* one request was rejected on a slot that is full and another one failed
\* after its save
C5_Witness ==
    /\ \E p \in Bookers :
          /\ bpc[p] = "full"
          /\ slots[breq[p].slot].allocated = TokensPerSlot(slots[breq[p].slot])
    /\ \E p \in Bookers : bpc[p] = "failed"

\* C6: a slot query that directly follows the same slot query creates no
\* slot and returns what the first one returned.
C6_SecondQueryIdempotent ==
    [][\A u \in UserExternalIds, d \in Days :
          ( /\ last.op = "get_slots_for_day"
            /\ last.resource = u
            /\ last.day = d
            /\ SeqGetSlotsForDay(u, d) )
          => /\ slots' = slots
             /\ last'.created = 0
             /\ last'.results = last.results]_vars

\* a repeated query of a day that has slots of both availabilities and a
\* slot of an earlier configuration
C6_Witness ==
    /\ last.op = "get_slots_for_day"
    /\ last.again
    /\ Len(last.results) >= 3

\* a returned call of the expander on one window
SingleWindow == expOut.returned /\ Len(expIn) = 1
WindowStart == expIn[1].availability.start_time
WindowEnd == expIn[1].availability.end_time
WindowSize == expIn[1].slot_size_in_minutes

\* the window is longer than 30 slots
LongWindow == SingleWindow /\ WindowEnd - WindowStart > FailsafeLimit * WindowSize

\* C7 as stated: a window of more than 30 slot sizes yields exactly 30
\* candidates.
C7_ThirtyCandidates == LongWindow => Len(expOut.slots) = FailsafeLimit

\* C7 amended: a window of more than 30 slot sizes yields exactly 29
\* candidates.
C7_TwentyNineCandidates == LongWindow => Len(expOut.slots) = FailsafeLimit - 1

\* the day from midnight in one-minute slots
C7_Witness ==
    /\ LongWindow
    /\ WindowStart = 0
    /\ WindowSize = 1

\* the number of k >= 0 with start + k*d < end
CandidatesNeeded ==
    IF WindowEnd > WindowStart
    THEN (WindowEnd - WindowStart + WindowSize - 1) \div WindowSize
    ELSE 0

\* the k-th candidate of the window, k >= 0
KthCandidate(k) ==
    LET s == (WindowStart + k * WindowSize) % MinutesPerDay
        e == (WindowStart + (k + 1) * WindowSize) % MinutesPerDay
    IN [key |-> <<s, e>>, start_time |-> s, end_time |-> e,
        availability_id |-> expIn[1].availability_id]

\* C8: a window that needs fewer than 30 candidates yields exactly the
\* candidates [start + k*d, start + (k+1)*d) with start + k*d < end, in
\* this order.
C8_ConsecutiveCandidates ==
    (SingleWindow /\ WindowSize > 0 /\ CandidatesNeeded < FailsafeLimit)
    => expOut.slots = [k \in 1..CandidatesNeeded |-> KthCandidate(k - 1)]

\* 09:00-10:00 in slots of 20 minutes
C8_Witness ==
    /\ SingleWindow
    /\ WindowStart = 540 /\ WindowEnd = 600 /\ WindowSize = 20
    /\ expOut.slots =
         << [key |-> <<540, 560>>, start_time |-> 540, end_time |-> 560,
             availability_id |-> 1],
            [key |-> <<560, 580>>, start_time |-> 560, end_time |-> 580,
             availability_id |-> 1],
            [key |-> <<580, 600>>, start_time |-> 580, end_time |-> 600,
             availability_id |-> 1] >>

\* (start time of day, end time of day, availability id) of slot rows
SlotTriples(rows) ==
    { <<rows[i].start_datetime.time, rows[i].end_datetime.time,
        rows[i].availability_id>> : i \in DOMAIN rows }

\* the same of the candidates of the request of q
CandidateTriples(q) ==
    LET d == Candidates(ResolveResource(qreq[q].resource, "user").obj, qreq[q].day)
    IN { <<d[i].start_time, d[i].end_time, d[i].availability_id>> : i \in DOMAIN d }

\* C9 as stated: the slots a query returns match the candidates of the
\* day exactly.
C9_ResultsMatchCandidates ==
    \A q \in Queriers :
        qpc[q] = "done" => SlotTriples(qresult[q]) = CandidateTriples(q)

\* C9 amended: every candidate of the day has a returned slot, and every
\* returned slot matches a candidate or is one the query found in the
\* table when it read it.
C9_ResultsCoverCandidates ==
    \A q \in Queriers :
        qpc[q] = "done"
        => /\ CandidateTriples(q) \subseteq SlotTriples(qresult[q])
           /\ \A i \in DOMAIN qresult[q] :
                 \/ SlotTriples(<<qresult[q][i]>>) \subseteq CandidateTriples(q)
                 \/ \E j \in DOMAIN qcreated[q] : qcreated[q][j].id = qresult[q][i].id

\* a query that found a slot of an earlier configuration and returned it
\* with the slots of the candidates
C9_Witness ==
    \E q \in Queriers :
        /\ qpc[q] = "done"
        /\ CandidateTriples(q) # {}
        /\ CandidateTriples(q) \subseteq SlotTriples(qresult[q])
        /\ SlotTriples(qresult[q]) # CandidateTriples(q)

Ended == {"done", "full", "failed"}

\* C10: a request that has left lock_create_appointment holds no lock,
\* and from some time on no request is waiting for a lock or inside the
\* locked section: each one that waited has got in and come to its end.
C10_LockReleasedAndProgress ==
    /\ [](\A p \in Bookers : bpc[p] \in Ended => \A r \in ResourceIds : lock[r] # p)
    /\ <>[](\A p \in Bookers : bpc[p] \notin {"waiting", "locked", "saved"})

\* a request waits for a lock another one holds, after a request has
\* left the locked section by a failure
C10_Witness ==
    /\ \E p \in Bookers :
          /\ bpc[p] = "waiting"
          /\ lock[bobj[p].resource] # 0
    /\ \E p \in Bookers : bpc[p] = "failed"

\* the rows of the table equal to a candidate triple c of the request of q
RowsOfCandidate(q, c) ==
    LET res == ResolveResource(qreq[q].resource, "user").obj
    IN { i \in DOMAIN slots :
           /\ slots[i].resource = res.id
           /\ slots[i].start_datetime = Combine(qreq[q].day, c[1])
           /\ slots[i].end_datetime = Combine(qreq[q].day, c[2])
           /\ slots[i].availability_id = c[3] }

\* C11: nothing guards the materialisation: when two queries of the same
\* (resource, day) have both read the table before a candidate had a slot,
\* both create it, and the table holds it at least twice.
C11_RacingQueriesDuplicate ==
    \A q1, q2 \in Queriers :
        ( /\ q1 # q2
          /\ qpc[q1] = "done" /\ qpc[q2] = "done"
          /\ qreq[q1] = qreq[q2] )
        => \A c \in CandidateTriples(q1) :
              ( /\ c \notin SlotTriples(qcreated[q1])
                /\ c \notin SlotTriples(qcreated[q2]) )
              => Cardinality(RowsOfCandidate(q1, c)) >= 2

\* two finished queries of the same day and two equal slot rows
C11_Witness ==
    \E q1, q2 \in Queriers :
        /\ q1 # q2
        /\ qpc[q1] = "done" /\ qpc[q2] = "done"
        /\ qreq[q1] = qreq[q2]
        /\ \E c \in CandidateTriples(q1) : Cardinality(RowsOfCandidate(q1, c)) >= 2

\* the arguments the expander gets for (res, day) when only the entries
\* whose day_of_week is the weekday of the day are kept
RECURSIVE EntriesOfWeekday(_, _, _)
EntriesOfWeekday(avs, day, n) ==
    IF n > Len(avs) THEN <<>>
    ELSE LET ents == SelectSeq(avs[n].availability,
                               LAMBDA e : e.day_of_week = day % DaysPerWeek)
         IN [i \in 1..Len(ents) |->
               [availability |-> ents[i],
                slot_size_in_minutes |-> avs[n].slot_size_in_minutes,
                availability_id |-> avs[n].id]]
            \o EntriesOfWeekday(avs, day, n + 1)

\* C12: a recurrence entry contributes slots to a day exactly when its
\* day_of_week is the weekday of that day: every slot of a day belongs to
\* an availability with an entry of that weekday, and a finished query
\* returns a slot for every candidate of the entries of that weekday.
C12_DayOfWeekFilter ==
    /\ \A i \in DOMAIN slots :
          \E j \in DOMAIN AvailabilityOf(slots[i].availability_id).availability :
             AvailabilityOf(slots[i].availability_id).availability[j].day_of_week
                = slots[i].start_datetime.date % DaysPerWeek
    /\ \A q \in Queriers :
          qpc[q] = "done"
          => LET res == ResolveResource(qreq[q].resource, "user").obj
                 d == convert_availability_to_slots(
                         EntriesOfWeekday(AvailabilitiesFor(res, qreq[q].day),
                                          qreq[q].day, 1))
             IN /\ \A i \in DOMAIN d :
                      <<d[i].start_time, d[i].end_time, d[i].availability_id>>
                         \in SlotTriples(qresult[q])
                /\ d = <<>> => qresult[q] = <<>>

\* resource 2, whose only entry is a Wednesday one, asked for the Thursday
\* (nothing) and for the Wednesday (its slot)
C12_Witness ==
    \E q1, q2 \in Queriers :
        /\ qpc[q1] = "done" /\ qreq[q1] = [resource |-> "u2", day |-> 3]
        /\ qresult[q1] = <<>>
        /\ qpc[q2] = "done" /\ qreq[q2] = [resource |-> "u2", day |-> 2]
        /\ SlotTriples(qresult[q2]) = { <<540, 600, 5>> }

\* C13: inside the locked scope the allocated value that is tested and
\* incremented is the committed one of the slot.
C13_CheckedValueIsCurrent ==
    \A p \in Bookers :
        /\ bpc[p] = "locked" => bobj[p].allocated = slots[bobj[p].id].allocated
        /\ bpc[p] = "saved" => bobj[p].allocated = slots[bobj[p].id].allocated + 1

\* the requests inside the with statement of line 70
Inside == { p \in Bookers : bpc[p] \in {"locked", "saved"} }

\* C14: the lock is per resource: two requests inside the locked section
\* never target slots of the same resource, whichever slots they target,
\* and a waiting request finds the lock of its resource free whenever no
\* request on that resource is inside, whatever other resources hold.
C14_PerResourceExclusion ==
    /\ \A p1, p2 \in Inside :
          p1 # p2 => bobj[p1].resource # bobj[p2].resource
    /\ \A p \in Inside : lock[bobj[p].resource] = p
    /\ \A p \in Bookers :
          ( /\ bpc[p] = "waiting"
            /\ \A p2 \in Inside : bobj[p2].resource # bobj[p].resource )
          => LockFree(bobj[p].resource)

\* two requests inside at once on different resources while a third waits
\* for another slot of the resource of one of them
C14_Witness ==
    \E p1, p2, p3 \in Bookers :
        /\ p1 \in Inside /\ p2 \in Inside
        /\ bobj[p1].resource # bobj[p2].resource
        /\ bpc[p3] = "waiting"
        /\ bobj[p3].resource = bobj[p1].resource
        /\ bobj[p3].id # bobj[p1].id

\* the candidate triples of (res, day) no slot of rows stands for
Unmatched(res, day, rows) ==
    LET d == Candidates(res, day)
    IN { <<d[i].start_time, d[i].end_time, d[i].availability_id>> : i \in DOMAIN d }
          \ SlotTriples(rows)

\* C15: a query removes a candidate exactly when a slot of that resource
\* and day has its key and its availability; it leaves every existing
\* slot as it was, a slot with the key of a candidate but another
\* availability included, and the rows it appends are exactly the
\* candidates without such a slot, once each, with allocated 0.
C15_ReconcileByKeyAndAvailability ==
    [][( /\ last'.op = "get_slots_for_day"
         /\ last'.error = None )
       => LET d == last'.day
              res == ResolveResource(last'.resource, "user").obj
              missing == Unmatched(res, d, SlotsForDay(slots, res, d))
              new == SubSeq(slots', Len(slots) + 1, Len(slots'))
          IN /\ Len(slots') >= Len(slots)
             /\ SubSeq(slots', 1, Len(slots)) = slots
             /\ SlotTriples(new) = missing
             /\ Len(new) = Cardinality(missing)
             /\ last'.created = Cardinality(missing)
             /\ \A i \in DOMAIN new :
                   /\ new[i].resource = res.id
                   /\ new[i].start_datetime.date = d
                   /\ new[i].end_datetime.date = d
                   /\ new[i].allocated = 0]_vars

\* a query that created the 09:30-10:00 slot of availability 2 beside the
\* 09:30-10:00 slot an earlier configuration left for availability 1
C15_Witness ==
    /\ last.op = "get_slots_for_day"
    /\ last.error = None
    /\ last.created >= 1
    /\ \E i, j \in DOMAIN slots :
          /\ i < j
          /\ slots[i].resource = slots[j].resource
          /\ slots[i].start_datetime = slots[j].start_datetime
          /\ slots[i].end_datetime = slots[j].end_datetime
          /\ slots[i].availability_id = 1
          /\ slots[j].availability_id = 2
    /\ { <<570, 600, 1>>, <<570, 600, 2>> } \subseteq SlotTriples(last.results)

\* C16: the mapping holds one entry per time-of-day range; a range that
\* several availabilities of the call produce carries the availability_id
\* of the one processed last, and every range any of them produces is in
\* the mapping.
C16_LastWriteWins ==
    expOut.returned
    => LET KeysOf(n) == LET one == convert_availability_to_slots(<< expIn[n] >>)
                        IN { <<n, one[i].key>> : i \in DOMAIN one }
           produced == UNION { KeysOf(n) : n \in DOMAIN expIn }
           all == { p[2] : p \in produced }
           latest(k) == CHOOSE n \in DOMAIN expIn :
                           /\ <<n, k>> \in produced
                           /\ \A m \in DOMAIN expIn : <<m, k>> \in produced => m <= n
           out == expOut.slots
       IN /\ Len(out) = Cardinality(all)
          /\ { <<out[i].key, out[i].availability_id>> : i \in DOMAIN out }
                = { <<k, expIn[latest(k)].availability_id>> : k \in all }

\* two availabilities with the window 09:00-10:00 and 20-minute slots:
\* three entries, all of the second availability
C16_Witness ==
    /\ expOut.returned
    /\ Len(expIn) = 2
    /\ expIn[1].availability = expIn[2].availability
    /\ expIn[1].slot_size_in_minutes = expIn[2].slot_size_in_minutes
    /\ expIn[1].availability.start_time = 540
    /\ expIn[1].availability.end_time = 600
    /\ expIn[1].slot_size_in_minutes = 20
    /\ Len(expOut.slots) = 3
    /\ \A i \in DOMAIN expOut.slots : expOut.slots[i].availability_id = 2

\* the external id names no user, or a user no SchedulableResource row
\* of the facility stands for
Unresolvable(external_id) ==
    \A u \in Users :
        u.external_id = external_id
        => ~\E r \in SchedulableResources :
               r.resource_id = u.id /\ r.facility = "f1" /\ r.resource_type = "user"

\* C17: a slot query whose resource does not resolve ends with an error
\* at once, with the slots and bookings as they were, and does nothing
\* afterwards; every row added to the slots is added by a query whose
\* resource resolved.
C17_ResolutionErrorsWriteNothing ==
    [][/\ \A q \in Queriers :
             /\ ( /\ qpc[q] = "idle" /\ qpc'[q] # "idle"
                  /\ Unresolvable(qreq'[q].resource) )
                => /\ qpc'[q] = "error"
                   /\ slots' = slots /\ bookings' = bookings
             /\ qpc[q] = "error"
                => /\ qpc'[q] = "error"
                   /\ qreq'[q] = qreq[q] /\ qslots'[q] = qslots[q]
                   /\ qresult'[q] = qresult[q]
       /\ slots' # slots
          => \E q \in Queriers :
                /\ qpc[q] = "creating"
                /\ ~Unresolvable(qreq[q].resource)
                /\ qslots'[q] # qslots[q]]_vars

\* one query for an unknown user and one for a user that is not
\* schedulable, both ended with an error, the table as it started
C17_Witness ==
    \E q1, q2 \in Queriers :
        /\ qpc[q1] = "error" /\ qreq[q1].resource = "u9"
        /\ qpc[q2] = "error" /\ qreq[q2].resource = "u3"
        /\ slots \in EarlierSlotTables
        /\ slots # <<>>

\* C18: a booking request whose patient does not resolve is rejected when
\* it arrives, with the lock, the slots and the bookings as they were; it
\* never holds the lock and takes no further step.
C18_UnknownPatientRejectedBeforeLock ==
    [][\A p \in Bookers :
          /\ ( /\ bpc[p] = "idle" /\ bpc'[p] # "idle"
               /\ breq'[p].patient \notin Patients )
             => /\ bpc'[p] = "notfound"
                /\ lock' = lock
                /\ slots' = slots /\ bookings' = bookings
          /\ ( bpc[p] # "idle" /\ breq[p].patient \notin Patients )
             => /\ bpc'[p] = "notfound"
                /\ btx'[p] = btx[p]
                /\ \A r \in ResourceIds : lock[r] # p /\ lock'[r] # p]_vars

\* a request for an unknown patient rejected while another request holds
\* the lock of the resource of the slot it asked for
C18_Witness ==
    \E p1, p2 \in Bookers :
        /\ bpc[p1] = "notfound"
        /\ breq[p1].patient = "p9"
        /\ bpc[p2] = "locked"
        /\ breq[p2].slot = breq[p1].slot
        /\ bookings = <<>>

\* C19: the allocated field of a slot is written only by a booking request
\* that holds the lock of the resource of that slot, and only on the slot
\* it targets; no step deletes a slot; a step of a slot query leaves the
\* existing slots and the bookings as they were and adds slots with
\* allocated 0 only; a step of a booking request adds no slot.
C19_Frame ==
    [][/\ Len(slots') >= Len(slots)
       /\ \A sid \in DOMAIN slots :
             slots'[sid] # slots[sid]
             => /\ slots'[sid] = [slots[sid] EXCEPT !.allocated = slots'[sid].allocated]
                /\ \E p \in Bookers :
                      /\ bpc[p] = "saved" /\ bpc'[p] = "done"
                      /\ breq[p].slot = sid
                      /\ lock[slots[sid].resource] = p
       /\ \A sid \in DOMAIN slots' :
             sid \notin DOMAIN slots
             => /\ slots'[sid].allocated = 0
                /\ \E q \in Queriers : qpc[q] = "creating" /\ qslots'[q] # qslots[q]
       /\ qvars' # qvars
          => /\ bookings' = bookings
             /\ SubSeq(slots', 1, Len(slots)) = slots
       /\ bvars' # bvars => Len(slots') = Len(slots)
       /\ bookings' # bookings => bvars' # bvars]_vars

\* a finished query that added a slot, still with allocated 0, and a
\* finished booking of another slot
C19_Witness ==
    /\ qpc[1] = "done"
    /\ \E p \in Bookers :
          /\ bpc[p] = "done"
          /\ slots[breq[p].slot].allocated = 1
          /\ \E sid \in DOMAIN slots :
                /\ sid # breq[p].slot
                /\ sid > 1
                /\ slots[sid].resource = slots[breq[p].slot].resource
                /\ slots[sid].allocated = 0
                /\ slots[sid] \in { qresult[1][i] : i \in DOMAIN qresult[1] }

=============================================================================
